---- MODULE Spec2Model ----
(***************************************************************************)
(* A model of the XML-schema analysis of annotation/text-tools:            *)
(*   src/tt/xmlschema.py          class Analysis, main                     *)
(*   src/xml-schema/analysis.py   class SchemaAnalysis (the older variant) *)
(*                                                                         *)
(* Python values are modelled as follows.                                  *)
(*   - a str is a tuple of one-character strings: "tei:p" is               *)
(*     <<"t","e","i",":","p">>; an absent str (None) is NoneStr and the    *)
(*     False that findDefs passes for "no defining name" is FalseStr;      *)
(*   - the values held under the keys "kind" and "mixed" are the TLA+      *)
(*     strings "simple", "complex", True, False and None (an absent key    *)
(*     reads as None, as info.get(key, None) does);                        *)
(*   - a dict is a function together with the sequence of its keys in      *)
(*     insertion order, the order in which .items() yields them.           *)
(***************************************************************************)
EXTENDS Integers, Sequences, FiniteSets, TLC

VARIABLES
    pc,             \* where the run is
    definitions,    \* the definitions dict that findDefs fills and resolve updates
    order,          \* the keys of definitions in insertion order
    redefinitions,  \* collections.Counter of repeated names
    pos,            \* infer(): index in order of the next record of the scan
    changed,        \* infer(): the change counter of the running round
    i,              \* resolve(): the round counter
    out,            \* what resolve() has printed: warnings and round lines
    calls,          \* how many times resolve() was called on this table
    variant,        \* whose resolve() runs: "Analysis" or "SchemaAnalysis"
    extracted,      \* history: the table as findDefs left it, before resolve() ran
    doc,            \* findDefs: the nodes of the tree it walks, in document order
    idx,            \* findDefs: index in doc of the next node it visits
    stack,          \* findDefs: the (definingName, topDef) passed down at each depth
    files,          \* the file system: what lies at each path
    override,       \* main: the override path it passes to Analysis, or None
    good,           \* Analysis.good
    root,           \* Analysis.root: the parsed base schema
    oroot,          \* Analysis.oroot: the parsed override schema, or None
    baseDefinitions,\* interpret: the base table, into which the override is merged
    baseOrder,      \* the keys of baseDefinitions in insertion order
    overrides,      \* Analysis.overrides: the transition recorded per name
    asTsv,          \* interpret: its parameter
    result,         \* interpret: the value it returns
    ret             \* main: the value it returns

walkVars == <<doc, idx, stack>>
progVars == <<files, override, good, root, oroot, baseDefinitions, baseOrder,
              overrides, asTsv, result, ret>>

vars == <<pc, definitions, order, redefinitions, pos, changed, i, out, calls, variant,
          extracted, walkVars, progVars>>

----------------------------------------------------------------------------
(* Python values *)

None == "None"
True == "True"
False == "False"
NoneStr == <<None>>
FalseStr == <<False>>

\* no parsed tree: the None of Analysis.oroot (a tree has at least its root)
NoTree == <<>>

\* bool(v) of a value held under "kind" or "mixed"
Truthy(v) == v # None /\ v # False

\* bool(s) of a str, None or False
TruthyStr(s) == s # NoneStr /\ s # FalseStr /\ s # <<>>

\* mutant: other.split(":", 1)[0], the part before the first colon
SplitFirst(s) ==
    IF \E k \in 1..Len(s) : s[k] = ":"
    THEN LET c == CHOOSE k \in 1..Len(s) :
                      s[k] = ":" /\ \A j \in 1..(k - 1) : s[j] # ":"
         IN SubSeq(s, 1, c - 1)
    ELSE s

\* other.split(":", 1)[-1]: what follows the first colon, the whole when there is none
SplitLast(s) ==
    IF \E k \in 1..Len(s) : s[k] = ":"
    THEN LET c == CHOOSE k \in 1..Len(s) :
                      s[k] = ":" /\ \A j \in 1..(k - 1) : s[j] # ":"
         IN SubSeq(s, c + 1, Len(s))
    ELSE s

----------------------------------------------------------------------------
(* Analysis.interpret.findDefs (the same text in SchemaAnalysis)              *)
(*                                                                            *)
(* A parsed tree is the sequence of its element nodes in document order, each *)
(* with its depth below the root (0 for the root): node k + 1 is a child of   *)
(* node k, or a later sibling of node k or of one of its ancestors. A node    *)
(* holds its local tag and the text of the attributes findDefs reads, None    *)
(* (NoneStr for a name or a reference) for an attribute it does not have.     *)

types == {"simpleType", "complexType"}
notInteresting == {"attribute", "attributeGroup", "group"}

EmptyWalk ==
    [defs |-> <<>>, order |-> <<>>, redefs |-> <<>>,
     stack |-> <<[definingName |-> FalseStr, topDef |-> FALSE]>>]

\* lines 216-228: what the node says about the definition it lies under
UnderDefinition(w, node, definingName, topDef) ==
    IF ~TruthyStr(definingName) THEN w
    ELSE IF topDef
    THEN IF node.tag \in types
         THEN LET k == IF node.tag = "simpleType" THEN "simple" ELSE "complex"
                  d1 == [w.defs EXCEPT ![definingName].kind = k]
              IN [w EXCEPT !.defs = IF node.mixed = "true"
                                    THEN [d1 EXCEPT ![definingName].mixed = True]
                                    ELSE d1]
         ELSE w
    ELSE IF node.tag = "extension" /\ TruthyStr(node.base)
         THEN [w EXCEPT !.defs = [w.defs EXCEPT ![definingName].base = node.base]]
         ELSE w

\* lines 230-236: the node's own name; a Counter reads 0 for a key it lacks
Register(w, node) ==
    IF TruthyStr(node.name) /\ node.tag \notin notInteresting
    THEN IF node.name \in DOMAIN w.defs
         THEN [w EXCEPT !.redefs = IF node.name \in DOMAIN w.redefs
                                   THEN [w.redefs EXCEPT ![node.name] = @ + 1]
                                   ELSE w.redefs @@ (node.name :> 1)]
         ELSE [w EXCEPT
                 !.defs = w.defs @@ (node.name :>
                            [tag |-> node.tag,
                             abstract |-> (node.abstract = "true"),
                             mixed |-> IF node.mixed = "true" THEN True ELSE False,
                             subs |-> node.subs, kind |-> None, base |-> NoneStr]),
                 !.order = Append(w.order, node.name)]
    ELSE w

\* lines 238-244: the (defining, top) the children of the node are visited with
ChildContext(node, definingName) ==
    IF TruthyStr(definingName)
    THEN [definingName |-> definingName, topDef |-> FALSE]
    ELSE IF TruthyStr(node.name) /\ node.tag = "element"
         THEN [definingName |-> node.name, topDef |-> TRUE]
         ELSE [definingName |-> FalseStr, topDef |-> FALSE]

\* one call of findDefs, without the calls for the children (lines 209-244); the
\* node at depth d is visited with the context its parent left at depth d
FindDefs(w, node) ==
    LET ctx == w.stack[node.depth + 1]
        w1 == UnderDefinition(w, node, ctx.definingName, ctx.topDef)
        w2 == Register(w1, node)
    IN [w2 EXCEPT !.stack = Append(SubSeq(w.stack, 1, node.depth + 1),
                                   ChildContext(node, ctx.definingName))]

\* findDefs(root, False, False) with all its recursive calls (lines 246-249)
RECURSIVE Walk(_, _, _)
Walk(w, d, k) == IF k > Len(d) THEN w ELSE Walk(FindDefs(w, d[k]), d, k + 1)

ExtractAll(d) == Walk(EmptyWalk, d, 1)

\* the visit of the next node of the tree
FindDefsStep ==
    /\ pc = "findDefs"
    /\ idx <= Len(doc)
    /\ LET w == FindDefs([defs |-> definitions, order |-> order,
                          redefs |-> redefinitions, stack |-> stack], doc[idx])
       IN /\ definitions' = w.defs
          /\ order' = w.order
          /\ redefinitions' = w.redefs
          /\ stack' = w.stack
    /\ idx' = idx + 1
    /\ UNCHANGED <<pc, pos, changed, i, out, calls, variant, extracted, doc, progVars>>

\* findDefs(root, False, False) has returned (line 249)
FindDefsDone ==
    /\ pc = "findDefs"
    /\ idx > Len(doc)
    /\ pc' = "extracted"
    /\ extracted' = definitions
    /\ UNCHANGED <<definitions, order, redefinitions, pos, changed, i, out, calls,
                   variant, doc, idx, stack, progVars>>

----------------------------------------------------------------------------
(* Analysis.resolve *)

\* info.get("base", info.get("subs", None)): the key "base" exists only with a
\* non-empty value (findDefs line 227), the key "subs" always exists
Other(info) == IF info.base # NoneStr THEN info.base ELSE info.subs

\* mutant: the change is counted but info["mixed"] is not assigned
InferMixedNotSet(defs, name, otherBare) ==
    IF Truthy(defs[otherBare].mixed)
    THEN [defs |-> defs, changed |-> 1, out |-> <<>>]
    ELSE [defs |-> defs, changed |-> 0, out |-> <<>>]

\* lines 329-331
InferMixed(defs, name, otherBare) ==
    IF Truthy(defs[otherBare].mixed)
    THEN [defs |-> [defs EXCEPT ![name].mixed = True], changed |-> 1, out |-> <<>>]
    ELSE [defs |-> defs, changed |-> 0, out |-> <<>>]

\* mutant: the test that info's kind is still None is dropped
InferKindUnguarded(defs, name, otherBare, other) ==
    IF Truthy(defs[otherBare].kind)
    THEN [defs |-> [defs EXCEPT ![name].kind = defs[otherBare].kind],
          changed |-> 1, out |-> <<>>]
    ELSE [defs |-> defs, changed |-> 0, out |-> <<<<"kind is not defined", other>>>>]

\* lines 332-337
InferKind(defs, name, otherBare, other) ==
    IF defs[name].kind = None
    THEN IF Truthy(defs[otherBare].kind)
         THEN [defs |-> [defs EXCEPT ![name].kind = defs[otherBare].kind],
               changed |-> 1, out |-> <<>>]
         ELSE [defs |-> defs, changed |-> 0, out |-> <<<<"kind is not defined", other>>>>]
    ELSE [defs |-> defs, changed |-> 0, out |-> <<>>]

\* lines 338-343
InferMixedUnknown(defs, name, otherBare, other) ==
    IF defs[name].mixed = None
    THEN IF Truthy(defs[otherBare].mixed)
         THEN [defs |-> [defs EXCEPT ![name].mixed = defs[otherBare].mixed],
               changed |-> 1, out |-> <<>>]
         ELSE [defs |-> defs, changed |-> 0, out |-> <<<<"mixed is not defined", other>>>>]
    ELSE [defs |-> defs, changed |-> 0, out |-> <<>>]

\* mutant: a record that takes mixed from its reference takes no kind in that step
InferOneMixedOrKind(defs, name) ==
    LET info == defs[name]
        other == Other(info)
        otherBare == SplitLast(other)
        same == [defs |-> defs, changed |-> 0, out |-> <<>>, raised |-> FALSE]
    IN IF Truthy(info.mixed) THEN same
       ELSE IF ~TruthyStr(other) THEN same
       ELSE IF otherBare \notin DOMAIN defs
            THEN [same EXCEPT !.out = <<<<"is not defined", other>>>>]
       ELSE IF Truthy(defs[otherBare].mixed)
            THEN [same EXCEPT !.defs = [defs EXCEPT ![name].mixed = True],
                              !.changed = 1]
       ELSE IF info.kind = None /\ Truthy(defs[otherBare].kind)
            THEN [same EXCEPT !.defs = [defs EXCEPT ![name].kind = defs[otherBare].kind],
                              !.changed = 1]
       ELSE same

\* the body of the for loop of infer() for the record of one name (lines 319-343)
InferOne(defs, name) ==
    LET info == defs[name]
        other == Other(info)
        otherBare == SplitLast(other)
        same == [defs |-> defs, changed |-> 0, out |-> <<>>, raised |-> FALSE]
    IN IF Truthy(info.mixed) THEN same
       ELSE IF ~TruthyStr(other) THEN same
       ELSE IF otherBare \notin DOMAIN defs
            THEN [same EXCEPT !.out = <<<<"is not defined", other>>>>]
       ELSE LET a == InferMixed(defs, name, otherBare)
                b == InferKind(a.defs, name, otherBare, other)
                c == InferMixedUnknown(b.defs, name, otherBare, other)
            IN [defs |-> c.defs,
                changed |-> a.changed + b.changed + c.changed,
                out |-> a.out \o b.out \o c.out,
                raised |-> FALSE]

\* SchemaAnalysis.resolve.infer, lines 241-243 of analysis.py
InferKindSA(defs, name, otherBare) ==
    IF defs[name].kind = None /\ Truthy(defs[otherBare].kind)
    THEN [defs |-> [defs EXCEPT ![name].kind = defs[otherBare].kind], changed |-> 1]
    ELSE [defs |-> defs, changed |-> 0]

\* SchemaAnalysis.resolve.infer: the body of the for loop; definitions[other]
\* raises KeyError for a name that is no key
InferOneSA(defs, name) ==
    LET info == defs[name]
        other == Other(info)
        otherBare == SplitLast(other)
        same == [defs |-> defs, changed |-> 0, out |-> <<>>, raised |-> FALSE]
    IN IF Truthy(info.mixed) THEN same
       ELSE IF ~TruthyStr(other) THEN same
       ELSE IF otherBare \notin DOMAIN defs
            THEN [same EXCEPT !.raised = TRUE]
       ELSE LET a == InferMixed(defs, name, otherBare)
                b == InferKindSA(a.defs, name, otherBare)
            IN [defs |-> b.defs, changed |-> a.changed + b.changed,
                out |-> <<>>, raised |-> FALSE]

InferOneOf(v, defs, name) ==
    IF v = "Analysis" THEN InferOne(defs, name) ELSE InferOneSA(defs, name)

\* one record of the scan of infer() (lines 318-343)
InferStep ==
    /\ pc = "infer"
    /\ pos <= Len(order)
    /\ LET res == InferOneOf(variant, definitions, order[pos])
       IN /\ definitions' = res.defs
          /\ changed' = changed + res.changed
          /\ out' = out \o res.out
          /\ pc' = IF res.raised THEN "raised" ELSE "infer"
          /\ pos' = IF res.raised THEN pos ELSE pos + 1
    /\ UNCHANGED <<order, redefinitions, i, calls, variant, extracted, walkVars, progVars>>

\* mutant: the loop goes on only after a round of more than one change
EndRoundBreaksEarly ==
    /\ pc = "infer"
    /\ pos > Len(order)
    /\ i' = i + 1
    /\ IF changed > 1
       THEN /\ out' = Append(out, <<"round", i + 1, changed>>)
            /\ pos' = 1
            /\ changed' = 0
            /\ pc' = "infer"
       ELSE /\ pc' = "returned"
            /\ UNCHANGED <<out, pos, changed>>
    /\ UNCHANGED <<definitions, order, redefinitions, calls, variant, extracted, walkVars, progVars>>

\* mutant: the loop tests the round counter, which is never 0 here, not the changes
EndRoundNeverBreaks ==
    /\ pc = "infer"
    /\ pos > Len(order)
    /\ i' = i + 1
    /\ IF i + 1 # 0
       THEN /\ out' = Append(out, <<"round", i + 1, changed>>)
            /\ pos' = 1
            /\ changed' = 0
            /\ pc' = "infer"
       ELSE /\ pc' = "returned"
            /\ UNCHANGED <<out, pos, changed>>
    /\ UNCHANGED <<definitions, order, redefinitions, calls, variant, extracted, walkVars, progVars>>

\* infer() returns and the while loop of resolve() decides (lines 345, 349-357)
EndRound ==
    /\ pc = "infer"
    /\ pos > Len(order)
    /\ i' = i + 1
    /\ IF changed # 0
       THEN /\ out' = Append(out, <<"round", i + 1, changed>>)
            /\ pos' = 1
            /\ changed' = 0
            /\ pc' = "infer"
       ELSE /\ pc' = "returned"
            /\ UNCHANGED <<out, pos, changed>>
    /\ UNCHANGED <<definitions, order, redefinitions, calls, variant, extracted, walkVars, progVars>>

\* resolve() is called once more on the table it has returned from (lines 314, 347)
MaxCalls == 2

ResolveAgain ==
    /\ pc = "returned"
    /\ calls < MaxCalls
    /\ calls' = calls + 1
    /\ i' = 0
    /\ pos' = 1
    /\ changed' = 0
    /\ out' = <<>>
    /\ pc' = "infer"
    /\ UNCHANGED <<definitions, order, redefinitions, variant, extracted, walkVars, progVars>>

\* infer(): one whole scan of the table (lines 316-345)
RECURSIVE Infer(_, _, _, _)
Infer(defs, ord, k, count) ==
    IF k > Len(ord) THEN [defs |-> defs, changed |-> count]
    ELSE LET res == InferOne(defs, ord[k])
         IN Infer(res.defs, ord, k + 1, count + res.changed)

\* resolve(): rounds until one changes nothing (lines 347-357)
RECURSIVE Resolve(_, _)
Resolve(defs, ord) ==
    LET round == Infer(defs, ord, 1, 0)
    IN IF round.changed # 0 THEN Resolve(round.defs, ord) ELSE round.defs

----------------------------------------------------------------------------
(* Analysis.eKey and the report of Analysis.interpret *)

\* the characters of the model's strings in the order Python compares them
Alphabet ==
    <<"0", "1", ":", "a", "b", "c", "d", "e", "f", "g", "h", "i", "j", "k", "l", "m",
      "n", "o", "p", "q", "r", "s", "t", "u", "v", "w", "x", "y", "z">>

Ord(c) == CHOOSE k \in 1..Len(Alphabet) : Alphabet[k] = c

\* a < b for two str
RECURSIVE StrLess(_, _)
StrLess(a, b) ==
    IF b = <<>> THEN FALSE
    ELSE IF a = <<>> THEN TRUE
    ELSE IF a[1] # b[1] THEN Ord(a[1]) < Ord(b[1])
    ELSE StrLess(Tail(a), Tail(b))

\* the characters of a tag
TagStr(tag) ==
    CASE tag = "element" -> <<"e", "l", "e", "m", "e", "n", "t">>
      [] tag = "schema" -> <<"s", "c", "h", "e", "m", "a">>
      [] tag = "extension" -> <<"e", "x", "t", "e", "n", "s", "i", "o", "n">>

\* mutant: the key that puts the non-abstract records first
eKeyNonAbstractFirst(name, info) ==
    << IF info.tag = "simpleType" THEN <<"0">>
       ELSE IF info.tag = "complexType" THEN <<"1">> ELSE TagStr(info.tag),
       IF info.abstract THEN <<"x">> ELSE <<>>,
       name >>

\* eKey((name, info)), lines 140-148
eKey(name, info) ==
    << IF info.tag = "simpleType" THEN <<"0">>
       ELSE IF info.tag = "complexType" THEN <<"1">> ELSE TagStr(info.tag),
       IF info.abstract THEN <<>> ELSE <<"x">>,
       name >>

\* a < b for two keys (tuples of three str)
KeyLess(a, b) ==
    \/ StrLess(a[1], b[1])
    \/ a[1] = b[1] /\ StrLess(a[2], b[2])
    \/ a[1] = b[1] /\ a[2] = b[2] /\ StrLess(a[3], b[3])

\* the names of sorted(defs.items(), key=self.eKey): the keys differ in the name,
\* so one arrangement is sorted
Sorted(defs) ==
    LET n == Cardinality(DOMAIN defs)
    IN CHOOSE o \in [1..n -> DOMAIN defs] :
          \A a, b \in 1..n :
              a < b => KeyLess(eKey(o[a], defs[o[a]]), eKey(o[b], defs[o[b]]))

\* lines 258-262
repMixed(m) == IF m = None THEN "-----" ELSE IF Truthy(m) THEN "mixed" ELSE "pure"
repKind(k) == IF k = None THEN "-----" ELSE k

\* mutant: the rows of all the sorted records that are elements
RowsWithAbstract(defs, sorted, k) ==
    LET rows == [j \in 1..Len(sorted) |-> <<sorted[j], defs[sorted[j]].kind,
                                           defs[sorted[j]].mixed>>]
    IN SelectSeq(SubSeq(rows, k, Len(rows)), LAMBDA row : defs[row[1]].tag = "element")

\* lines 293-297: the rows of the sorted records that are elements and not abstract
RECURSIVE Rows(_, _, _)
Rows(defs, sorted, k) ==
    IF k > Len(sorted) THEN <<>>
    ELSE LET info == defs[sorted[k]]
         IN (IF info.tag = "element" /\ ~info.abstract
             THEN <<<<sorted[k], info.kind, info.mixed>>>> ELSE <<>>)
            \o Rows(defs, sorted, k + 1)

\* lines 298-305: the rows as they are, or each as the three columns of its line
Report(defs, tsv) ==
    LET rows == Rows(defs, Sorted(defs), 1)
    IN IF tsv
       THEN [k \in 1..Len(rows) |->
                <<rows[k][1], repKind(rows[k][2]), repMixed(rows[k][3])>>]
       ELSE rows

----------------------------------------------------------------------------
(* The merge of Analysis.interpret *)

\* mutant: the transition looks at the mixed labels alone
transRepMixedOnly(baseDef, odef) ==
    LET baseMixed == IF baseDef.mixed = None THEN "-----"
                     ELSE IF Truthy(baseDef.mixed) THEN "mixed" ELSE "pure"
        oMixed == IF odef.mixed = None THEN "-----"
                  ELSE IF Truthy(odef.mixed) THEN "mixed" ELSE "pure"
    IN IF baseMixed # oMixed THEN <<baseMixed, "==>", oMixed>> ELSE NoneStr

\* lines 277-289; an f-string is the tuple of the parts its blanks separate, and
\* the None of "no transition" is NoneStr
transRep(baseDef, odef) ==
    LET baseKind == repKind(baseDef.kind)
        baseMixed == repMixed(baseDef.mixed)
        oKind == repKind(odef.kind)
        oMixed == repMixed(odef.mixed)
    IN IF baseKind # oKind /\ baseMixed # oMixed
       THEN <<baseKind, baseMixed, "==>", oKind, oMixed>>
       ELSE IF baseKind # oKind THEN <<baseKind, "==>", oKind>>
       ELSE IF baseMixed # oMixed THEN <<baseMixed, "==>", oMixed>>
       ELSE NoneStr

\* lines 274-292 for one item of definitions.items(): the test of line 275 asks
\* the override table itself, and baseDefinitions[name] raises KeyError for a name
\* the base table lacks
MergeOne(m, name, odefs) ==
    IF m.raised THEN m
    ELSE IF name \notin DOMAIN odefs THEN m
    ELSE IF name \notin DOMAIN m.base THEN [m EXCEPT !.raised = TRUE]
    ELSE LET tr == transRep(m.base[name], odefs[name])
         IN [m EXCEPT !.base = IF tr # NoneStr
                                THEN [m.base EXCEPT ![name] = odefs[name]]
                                ELSE m.base,
                      !.overrides = IF name \in DOMAIN m.overrides
                                    THEN [m.overrides EXCEPT ![name] = tr]
                                    ELSE m.overrides @@ (name :> tr)]

\* the for loop of lines 274-292
RECURSIVE Merge(_, _, _, _)
Merge(m, odefs, oorder, k) ==
    IF k > Len(oorder) THEN m
    ELSE Merge(MergeOne(m, oorder[k], odefs), odefs, oorder, k + 1)

\* Analysis.interpret (lines 186-305): extraction and resolution of the base
\* tree, the same for the override tree when there is one, the merge, the report
Interpret ==
    /\ pc = "constructed"
    /\ good
    /\ LET b == ExtractAll(root)
           bdefs == Resolve(b.defs, b.order)
           o == ExtractAll(oroot)
           odefs == Resolve(o.defs, o.order)
           m0 == [base |-> bdefs, overrides |-> <<>>, raised |-> FALSE]
           m == IF oroot # NoTree THEN Merge(m0, odefs, o.order, 1) ELSE m0
       IN /\ definitions' = IF oroot # NoTree THEN odefs ELSE bdefs
          /\ order' = IF oroot # NoTree THEN o.order ELSE b.order
          /\ redefinitions' = IF oroot # NoTree THEN o.redefs ELSE b.redefs
          /\ extracted' = IF oroot # NoTree THEN o.defs ELSE b.defs
          /\ baseDefinitions' = m.base
          /\ baseOrder' = b.order
          /\ overrides' = m.overrides
          /\ IF m.raised
             THEN pc' = "KeyError" /\ result' = result
             ELSE pc' = "interpreted" /\ result' = Report(m.base, asTsv)
    /\ UNCHANGED <<pos, changed, i, out, calls, variant, walkVars,
                   files, override, good, root, oroot, asTsv, ret>>

\* in the states of a run of resolve() or findDefs alone the program's own
\* variables are idle
NoProgram ==
    /\ files = <<>> /\ override = None /\ good = FALSE
    /\ root = NoTree /\ oroot = NoTree
    /\ baseDefinitions = <<>> /\ baseOrder = <<>> /\ overrides = <<>>
    /\ asTsv = FALSE /\ result = <<>> /\ ret = None

----------------------------------------------------------------------------
(* The tables resolve() is run on: what findDefs can leave behind *)

MaxRecords == 3

p == <<"p">>
q == <<"q">>
r == <<"r">>
s == <<"s">>
NamePool == <<p, q, r, s>>
Missing == <<"z">>
Prefixed(n) == <<"t", "e", "i", ":">> \o n

Keys(n) == {NamePool[k] : k \in 1..n}

\* the kind the type child of the element of each name declares, when it has one
KindOf(name) == IF name \in {p, r} THEN "complex" ELSE "simple"

\* how the element of each name writes a reference to the name n: p as a plain
\* substitutionGroup, q as a prefixed one, r as an extension base that hides its
\* substitutionGroup, s as a prefixed extension base
RefTo(name, n) ==
    IF name = p THEN [base |-> NoneStr, subs |-> n]
    ELSE IF name = q THEN [base |-> NoneStr, subs |-> Prefixed(n)]
    ELSE IF name = r THEN [base |-> n, subs |-> Missing]
    ELSE [base |-> Prefixed(n), subs |-> NoneStr]

\* the record findDefs leaves for a name: "mixed" is True or False (lines 213,
\* 223, 235), "kind" is set or absent (lines 219-221), and the reference is absent
\* (NoneStr), names a key of the table, or names no key (Missing)
Record(name, m, hasKind, target) ==
    LET f == IF target = NoneStr THEN [base |-> NoneStr, subs |-> NoneStr]
             ELSE RefTo(name, target)
    IN [tag |-> "element", abstract |-> FALSE, mixed |-> m, subs |-> f.subs,
        kind |-> IF hasKind THEN KindOf(name) ELSE None, base |-> f.base]

\* the keys in the order of the pool
Canonical(n) == [k \in 1..n |-> NamePool[k]]

InitResolve ==
    /\ pc = "infer"
    /\ \E n \in 0..MaxRecords :
          /\ \E m \in [Keys(n) -> {False, True}],
                hk \in [Keys(n) -> BOOLEAN],
                tg \in [Keys(n) -> Keys(n) \cup {NoneStr, Missing}] :
                definitions = [k \in Keys(n) |-> Record(k, m[k], hk[k], tg[k])]
          /\ order = Canonical(n)
    /\ extracted = definitions
    /\ doc = <<>> /\ idx = 1 /\ stack = <<>>
    /\ NoProgram
    /\ variant \in {"Analysis", "SchemaAnalysis"}
    /\ redefinitions = <<>>
    /\ pos = 1
    /\ changed = 0
    /\ i = 0
    /\ out = <<>>
    /\ calls = 1

NextResolve == InferStep \/ EndRound \/ ResolveAgain

SpecResolve == InitResolve /\ [][NextResolve]_vars

----------------------------------------------------------------------------
(* Claims about resolve() *)

\* the key a record's consulted reference looks up, NoneStr when it consults none
Target(info) == IF TruthyStr(Other(info)) THEN SplitLast(Other(info)) ELSE NoneStr

\* the round lines resolve() has printed in this call, and the changes they report
RoundLines(o) == SelectSeq(o, LAMBDA e : e[1] = "round")

RECURSIVE SumChanges(_)
SumChanges(lines) ==
    IF lines = <<>> THEN 0 ELSE lines[1][3] + SumChanges(Tail(lines))

(* C1: on every finite table, with cyclic, self and dangling references,      *)
(* resolve() of Analysis reaches a round of zero changes and returns: before  *)
(* it returns a step is always possible, it never raises, and it runs at most *)
(* 2*N + 1 rounds on a table of N records.                                    *)
C1_ResolveHalts ==
    /\ i <= 2 * Len(order) + 1
    /\ pc = "infer" => ENABLED (InferStep \/ EndRound)
    /\ variant = "Analysis" => pc # "raised"

\* resolve() has returned, after a round with changes, on a table that holds a
\* cycle of two records, a self-reference or a dangling reference
C1_Witness ==
    /\ pc = "returned" /\ variant = "Analysis" /\ calls = 1 /\ i >= 2
    /\ \E a, b \in DOMAIN definitions :
          /\ a # b
          /\ Target(definitions[a]) = b
          /\ Target(definitions[b]) = a
    /\ \E c \in DOMAIN definitions :
          Target(definitions[c]) \in {c, Missing} /\ ~Truthy(definitions[c].mixed)

(* C2: during one run of resolve() on N records the per-round change counts   *)
(* sum to at most 2*N, so at most 2*N rounds report a change.                 *)
C2_ChangesBounded ==
    /\ SumChanges(RoundLines(out)) + changed <= 2 * Len(order)
    /\ Len(RoundLines(out)) <= 2 * Len(order)

\* a run that has returned after two rounds with changes, four changes in all
C2_Witness ==
    /\ pc = "returned" /\ calls = 1
    /\ Len(RoundLines(out)) >= 2
    /\ SumChanges(RoundLines(out)) >= 4

(* C3: in every step of resolve(), for every record, a kind that is set keeps *)
(* its value, a mixed flag that is True stays True, and mixed never goes back *)
(* to unknown.                                                                *)
C3_Monotone ==
    [][\A n \in DOMAIN definitions :
          /\ definitions[n].kind # None => definitions'[n].kind = definitions[n].kind
          /\ definitions[n].mixed = True => definitions'[n].mixed = True
          /\ definitions[n].mixed # None => definitions'[n].mixed # None]_vars

\* in a later round, a record that is scanned (it is not mixed) has a kind of its
\* own and refers to a record with another kind
C3_Witness ==
    /\ pc = "infer" /\ i >= 1
    /\ \E n \in DOMAIN definitions :
          /\ ~Truthy(definitions[n].mixed)
          /\ definitions[n].kind # None
          /\ Target(definitions[n]) \in DOMAIN definitions
          /\ definitions[Target(definitions[n])].kind
                \notin {None, definitions[n].kind}

(* C4: a second resolve() on a table on which resolve() has returned runs     *)
(* exactly one round, that round counts zero changes (no round line is        *)
(* printed) and no field of any record is modified.                           *)
C4_Idempotent ==
    /\ [][calls >= 2 => definitions' = definitions]_vars
    /\ [](calls >= 2 =>
            /\ changed = 0 /\ RoundLines(out) = <<>> /\ pc # "raised"
            /\ i <= 1
            /\ pc = "returned" => i = 1)

\* the second call has returned on a table in which the first call had filled in
\* a kind (one that is not the record's own)
C4_Witness ==
    /\ calls = 2 /\ pc = "returned"
    /\ \E n \in DOMAIN definitions :
          extracted[n].kind = None /\ definitions[n].kind # None

(* C7: if q has no kind and is not mixed, and its consulted reference, written *)
(* "p" or "prefix:p", names a record p that has kind K and mixed True before   *)
(* resolve() starts, then once the first round is over q has kind K and mixed  *)
(* True, wherever q and p stand in the scan.                                   *)
C7_DirectPropagation ==
    (variant = "Analysis" /\ calls = 1 /\ i >= 1) =>
        \A a, b \in DOMAIN extracted :
            ( /\ extracted[a].kind = None
              /\ extracted[a].mixed # True
              /\ Other(extracted[a]) \in {b, Prefixed(b)}
              /\ extracted[b].kind # None
              /\ extracted[b].mixed = True )
            => /\ definitions[a].kind = extracted[b].kind
               /\ definitions[a].mixed = True

\* C7 with its case at hand: after the first round, one record that wrote the
\* reference plainly and stands after p, and one that wrote it with a prefix
C7_Witness ==
    /\ variant = "Analysis" /\ calls = 1 /\ i = 1
    /\ \E a, b, c \in DOMAIN extracted :
          /\ extracted[b].kind # None /\ extracted[b].mixed = True
          /\ extracted[a].kind = None /\ extracted[a].mixed = False
          /\ extracted[c].kind = None /\ extracted[c].mixed = False
          /\ Other(extracted[a]) = b
          /\ Other(extracted[c]) = Prefixed(b)
          /\ definitions[a].kind = extracted[b].kind /\ definitions[a].mixed = True
          /\ definitions[c].kind = extracted[b].kind /\ definitions[c].mixed = True

----------------------------------------------------------------------------
(* The trees findDefs is run on *)

MaxNodes == 5

foo == <<"f", "o", "o">>
bar == <<"b", "a", "r">>

Node(tag, name, abstract, mixed, subs, base) ==
    [tag |-> tag, name |-> name, abstract |-> abstract, mixed |-> mixed,
     subs |-> subs, base |-> base, depth |-> 0]

SchemaNode == Node("schema", NoneStr, None, None, NoneStr, NoneStr)

\* the nodes below the root
NodePool ==
    { Node("element", foo, None, None, NoneStr, NoneStr),
      Node("element", foo, "true", None, bar, NoneStr),
      Node("element", bar, None, "true", Prefixed(foo), NoneStr),
      Node("complexType", NoneStr, None, "true", NoneStr, NoneStr),
      Node("complexType", foo, None, "false", NoneStr, NoneStr),
      Node("simpleType", NoneStr, None, None, NoneStr, NoneStr),
      Node("extension", NoneStr, None, None, NoneStr, bar),
      Node("extension", NoneStr, None, None, NoneStr, Prefixed(foo)),
      Node("attribute", foo, None, None, NoneStr, NoneStr) }

\* depths in document order: the root alone has depth 0, a node lies at most one
\* level below the node before it
Shapes(n) ==
    {d \in [1..n -> 0..(n - 1)] :
        /\ d[1] = 0
        /\ \A k \in 2..n : d[k] >= 1 /\ d[k] <= d[k - 1] + 1}

Tree(n, c, d) ==
    [k \in 1..n |-> [(IF k = 1 THEN SchemaNode ELSE c[k]) EXCEPT !.depth = d[k]]]

InitExtract ==
    /\ pc = "findDefs"
    /\ \E n \in 1..MaxNodes :
          \E c \in [2..n -> NodePool], d \in Shapes(n) : doc = Tree(n, c, d)
    /\ idx = 1
    /\ stack = EmptyWalk.stack
    /\ definitions = <<>>
    /\ order = <<>>
    /\ redefinitions = <<>>
    /\ extracted = <<>>
    /\ variant = "Analysis"
    /\ pos = 1 /\ changed = 0 /\ i = 0 /\ out = <<>> /\ calls = 0
    /\ NoProgram

NextExtract == FindDefsStep \/ FindDefsDone

SpecExtract == InitExtract /\ [][NextExtract]_vars

----------------------------------------------------------------------------
(* Claims about findDefs *)

\* the nodes findDefs registers under their name (line 230)
Recordable(node) == TruthyStr(node.name) /\ node.tag \notin notInteresting

\* the declarations of a name in a tree, and the first of them
Decls(d, name) == {k \in 1..Len(d) : Recordable(d[k]) /\ d[k].name = name}
FirstDecl(d, name) == CHOOSE k \in Decls(d, name) : \A j \in Decls(d, name) : k <= j

\* node k lies in the subtree below node g
Below(d, g, k) == k > g /\ \A j \in (g + 1)..k : d[j].depth > d[g].depth

\* the tree without the subtrees below the later declarations of a name (those
\* declarations stay, and so does all that lies below the first declaration)
RECURSIVE Keep(_, _, _)
Keep(d, drop, k) ==
    IF k > Len(d) THEN <<>>
    ELSE (IF k \in drop THEN <<>> ELSE <<d[k]>>) \o Keep(d, drop, k + 1)

Prune(d, name) ==
    LET f == FirstDecl(d, name)
        later == {g \in Decls(d, name) : g # f /\ ~Below(d, f, g)}
    IN Keep(d, {k \in 1..Len(d) : \E g \in later : Below(d, g, k)}, 1)

(* C5: when a name is declared by more than one recordable node, every later  *)
(* declaration adds one to the redefinition counter of the name and the       *)
(* record keeps the tag, abstract and subs of the first declaration, and the  *)
(* kind, mixed and base that the first declaration's own subtree gives (those *)
(* of the tree without the subtrees of the later declarations).               *)
C5_FirstWriteWins ==
    pc = "extracted" =>
        \A name \in DOMAIN definitions :
            LET f == FirstDecl(doc, name)
                n == Cardinality(Decls(doc, name))
                own == ExtractAll(Prune(doc, name)).defs[name]
            IN /\ definitions[name].tag = doc[f].tag
               /\ definitions[name].abstract = (doc[f].abstract = "true")
               /\ definitions[name].subs = doc[f].subs
               /\ IF n = 1 THEN name \notin DOMAIN redefinitions
                  ELSE name \in DOMAIN redefinitions /\ redefinitions[name] = n - 1
               /\ definitions[name].kind = own.kind
               /\ definitions[name].mixed = own.mixed
               /\ definitions[name].base = own.base

\* the part of C5 the code keeps: the first declaration's tag, abstract and subs,
\* and the count of the later declarations
C5_FirstNodeKept ==
    pc = "extracted" =>
        \A name \in DOMAIN definitions :
            LET f == FirstDecl(doc, name)
                n == Cardinality(Decls(doc, name))
            IN /\ definitions[name].tag = doc[f].tag
               /\ definitions[name].abstract = (doc[f].abstract = "true")
               /\ definitions[name].subs = doc[f].subs
               /\ IF n = 1 THEN name \notin DOMAIN redefinitions
                  ELSE name \in DOMAIN redefinitions /\ redefinitions[name] = n - 1

----------------------------------------------------------------------------
(* Analysis.__init__ and main *)

\* what open() and etree.parse find at a path
File(status, tree) == [status |-> status, tree |-> tree]
MissingFile == File("FileNotFoundError", NoTree)
Unparsable == File("XMLSyntaxError", NoTree)

\* Analysis.__init__ (lines 99-123): both open() calls name baseSchema
Construct ==
    /\ pc = "main"
    /\ IF files["base"].status = "ok"
       THEN /\ root' = files["base"].tree
            /\ oroot' = IF override # None THEN files["base"].tree ELSE NoTree
            /\ good' = TRUE
       ELSE /\ good' = FALSE
            /\ UNCHANGED <<root, oroot>>
    /\ pc' = "constructed"
    /\ UNCHANGED <<definitions, order, redefinitions, pos, changed, i, out, calls,
                   variant, extracted, walkVars, files, override,
                   baseDefinitions, baseOrder, overrides, asTsv, result, ret>>

\* main, lines 428-429
MainNotGood ==
    /\ pc = "constructed"
    /\ ~good
    /\ pc' = "exit"
    /\ ret' = 1
    /\ UNCHANGED <<definitions, order, redefinitions, pos, changed, i, out, calls,
                   variant, extracted, walkVars, files, override, good, root, oroot,
                   baseDefinitions, baseOrder, overrides, asTsv, result>>

\* main, lines 431-442
MainReturn ==
    /\ pc = "interpreted"
    /\ pc' = "exit"
    /\ ret' = 0
    /\ UNCHANGED <<definitions, order, redefinitions, pos, changed, i, out, calls,
                   variant, extracted, walkVars, files, override, good, root, oroot,
                   baseDefinitions, baseOrder, overrides, asTsv, result>>

----------------------------------------------------------------------------
(* Schemas for the merge and the whole program *)

x == <<"x">>
y == <<"y">>

At(node, depth) == [node EXCEPT !.depth = depth]

\* the declarations of an element: alone, with a type child, with a mixed
\* attribute, referring to a substitution group
Declarations(name, group) ==
    { <<>>,
      <<At(Node("element", name, None, None, NoneStr, NoneStr), 1)>>,
      <<At(Node("element", name, None, "true", NoneStr, NoneStr), 1)>>,
      <<At(Node("element", name, None, None, NoneStr, NoneStr), 1),
        At(Node("simpleType", NoneStr, None, None, NoneStr, NoneStr), 2)>>,
      <<At(Node("element", name, None, None, NoneStr, NoneStr), 1),
        At(Node("complexType", NoneStr, None, None, NoneStr, NoneStr), 2)>>,
      <<At(Node("element", name, None, None, NoneStr, NoneStr), 1),
        At(Node("complexType", NoneStr, None, "true", NoneStr, NoneStr), 2)>>,
      <<At(Node("element", name, None, None, group, NoneStr), 1)>> }

\* a schema declaring x, then y; y may refer to x or to a name nothing declares
Schemas ==
    { <<SchemaNode>> \o dx \o dy :
        dx \in Declarations(x, NoneStr),
        dy \in Declarations(y, x) \cup Declarations(y, Missing) }

w == <<"w">>

\* the declarations of a name that the report leaves out: an abstract element, a
\* named complexType
Unreported(name) ==
    { <<>>,
      <<At(Node("element", name, "true", None, NoneStr, NoneStr), 1)>>,
      <<At(Node("complexType", name, None, "true", NoneStr, NoneStr), 1)>> }

\* a schema that may declare w, then x and y in either order
Documents ==
    { <<SchemaNode>> \o dw \o (IF xFirst THEN dx \o dy ELSE dy \o dx) :
        dw \in Unreported(w),
        dx \in Declarations(x, NoneStr),
        dy \in Declarations(y, x) \cup Declarations(y, Missing),
        xFirst \in BOOLEAN }

InitProgram ==
    /\ definitions = <<>> /\ order = <<>> /\ redefinitions = <<>>
    /\ extracted = <<>>
    /\ pos = 1 /\ changed = 0 /\ i = 0 /\ out = <<>> /\ calls = 0
    /\ variant = "Analysis"
    /\ doc = <<>> /\ idx = 1 /\ stack = <<>>
    /\ baseDefinitions = <<>> /\ baseOrder = <<>> /\ overrides = <<>>
    /\ result = <<>> /\ ret = None
    /\ asTsv \in BOOLEAN

\* interpret() on an Analysis whose two trees are any two schemas: the two open()
\* calls of __init__ read the file system at two moments
InitMerge ==
    /\ pc = "constructed"
    /\ InitProgram
    /\ files = <<>> /\ override = None
    /\ good = TRUE
    /\ root \in Documents
    /\ oroot \in Documents \cup {NoTree}

NextMerge == Interpret \/ MainReturn

SpecMerge == InitMerge /\ [][NextMerge]_vars

\* the program: main with a base schema and, for task tei, an override
Contents == {File("ok", d) : d \in Schemas} \cup {MissingFile, Unparsable}

Init ==
    /\ pc = "main"
    /\ InitProgram
    /\ \E b, o \in Contents : files = [path \in {"base", "over"} |->
                                          IF path = "base" THEN b ELSE o]
    /\ override \in {None, "over"}
    /\ good = FALSE
    /\ root = NoTree /\ oroot = NoTree

Next == Construct \/ Interpret \/ MainNotGood \/ MainReturn

Spec == Init /\ [][Next]_vars

----------------------------------------------------------------------------
(* Claims about interpret() and the program *)

\* the table of a tree after findDefs, and after resolve()
Declared(d) == ExtractAll(d).defs
Table(d) == Resolve(ExtractAll(d).defs, ExtractAll(d).order)

\* a non-abstract element without a type child and without a mixed attribute
\* whose only reference names no record of the table
Dangling(defs, name) ==
    /\ defs[name].tag = "element"
    /\ ~defs[name].abstract
    /\ defs[name].kind = None
    /\ ~Truthy(defs[name].mixed)
    /\ TruthyStr(Other(defs[name]))
    /\ Target(defs[name]) \notin DOMAIN defs

\* C6: a non-abstract element with no type child and no mixed attribute whose only
\* reference names no record stays kind unknown and mixed unknown through
\* resolution, and its row of the final report shows "-----" for the kind and
\* "-----" for mixed (None and None in the list form).
C6_DanglingStaysUnknown ==
    (pc = "interpreted" /\ oroot = NoTree) =>
        \A name \in DOMAIN Declared(root) :
            Dangling(Declared(root), name) =>
                /\ baseDefinitions[name].kind = None
                /\ baseDefinitions[name].mixed = None
                /\ \E k \in 1..Len(result) :
                      result[k] = IF asTsv THEN <<name, "-----", "-----">>
                                  ELSE <<name, None, None>>

\* the transition the merge is to record for a base record and an override record
Transition(b, o) ==
    LET sameKind == repKind(b.kind) = repKind(o.kind)
        sameMixed == repMixed(b.mixed) = repMixed(o.mixed)
    IN CASE sameKind /\ sameMixed -> NoneStr
         [] sameKind /\ ~sameMixed -> <<repMixed(b.mixed), "==>", repMixed(o.mixed)>>
         [] ~sameKind /\ sameMixed -> <<repKind(b.kind), "==>", repKind(o.kind)>>
         [] ~sameKind /\ ~sameMixed ->
               <<repKind(b.kind), repMixed(b.mixed), "==>",
                 repKind(o.kind), repMixed(o.mixed)>>

\* C8: every transition the merge records is for a name of both resolved tables;
\* it is None exactly when the kind labels are equal and the mixed labels are
\* equal, "<baseMixed> ==> <overrideMixed>" when only mixed differs,
\* "<baseKind> ==> <overrideKind>" when only the kind differs, both pairs when
\* both differ; the merged table holds the override's record exactly when a
\* transition was produced and the base record otherwise; and when interpret()
\* returns, every name of both tables has its transition recorded.
C8_OverrideMerge ==
    (pc # "constructed" /\ oroot # NoTree) =>
        /\ \A name \in DOMAIN overrides :
              /\ name \in DOMAIN Table(root) \cap DOMAIN Table(oroot)
              /\ overrides[name] = Transition(Table(root)[name], Table(oroot)[name])
              /\ baseDefinitions[name] = IF overrides[name] # NoneStr
                                         THEN Table(oroot)[name]
                                         ELSE Table(root)[name]
        /\ pc = "interpreted" =>
              DOMAIN Table(root) \cap DOMAIN Table(oroot) \subseteq DOMAIN overrides

\* interpret() has returned the merge of a base where x is complex and pure with
\* an override where x is complex and mixed: the transition is "pure ==> mixed"
\* and the report lists x as mixed
C8_Witness ==
    /\ pc = "interpreted"
    /\ oroot # NoTree
    /\ x \in DOMAIN overrides
    /\ overrides[x] = <<"pure", "==>", "mixed">>
    /\ Table(root)[x].kind = "complex" /\ Table(root)[x].mixed = False
    /\ Table(oroot)[x].kind = "complex" /\ Table(oroot)[x].mixed = True
    /\ baseDefinitions[x] = Table(oroot)[x]
    /\ \E k \in 1..Len(result) :
          result[k] = IF asTsv THEN <<x, "complex", "mixed">> ELSE <<x, "complex", True>>

\* C9: when the override table has a name the base table lacks, the merge still
\* completes normally; that name is added neither to the merged table nor to the
\* transitions, and every name of the base table alone keeps its base record.
C9_MergeAsymmetry ==
    (pc # "constructed" /\ oroot # NoTree) =>
        /\ pc \in {"interpreted", "exit"}
        /\ \A name \in DOMAIN Table(oroot) \ DOMAIN Table(root) :
              name \notin DOMAIN baseDefinitions \cup DOMAIN overrides
        /\ \A name \in DOMAIN Table(root) \ DOMAIN Table(oroot) :
              baseDefinitions[name] = Table(root)[name]

\* C10: when an override path is given and holds a schema, the override tree is
\* the document at the override path, and the override table interpret() merges
\* is the table of that document.
C10_OverrideFromItsPath ==
    (pc # "main" /\ good /\ override # None /\ files[override].status = "ok") =>
        /\ oroot = files[override].tree
        /\ pc \in {"interpreted", "exit"} => definitions = Table(files[override].tree)

\* the records of a table the report is to list
Reported(defs) ==
    {name \in DOMAIN defs : defs[name].tag = "element" /\ ~defs[name].abstract}

\* C11: the sequence interpret() returns has exactly one row for each record of
\* the final (possibly merged) table whose tag is "element" and whose abstract
\* flag is false, no row for any other record, each row with the kind and mixed
\* of its record (their labels in the TSV form), and the rows are in strictly
\* ascending order of name.
C11_ReportRows ==
    pc = "interpreted" =>
        /\ Len(result) = Cardinality(Reported(baseDefinitions))
        /\ \A k \in 1..Len(result) : result[k][1] \in Reported(baseDefinitions)
        /\ \A name \in Reported(baseDefinitions) :
              \E k \in 1..Len(result) :
                  result[k] = IF asTsv
                              THEN <<name, repKind(baseDefinitions[name].kind),
                                     repMixed(baseDefinitions[name].mixed)>>
                              ELSE <<name, baseDefinitions[name].kind,
                                     baseDefinitions[name].mixed>>
        /\ \A k \in 1..(Len(result) - 1) : StrLess(result[k][1], result[k + 1][1])

\* interpret() has returned two rows, x before y, from a base tree that declares
\* y before x, and the merged table has a record of w that has no row
C11_Witness ==
    /\ pc = "interpreted"
    /\ Len(result) = 2
    /\ result[1][1] = x /\ result[2][1] = y
    /\ baseOrder = <<y, x>> \/ baseOrder = <<w, y, x>>
    /\ w \in DOMAIN baseDefinitions

\* every document the caller names was read and parsed
AllRead ==
    /\ files["base"].status = "ok"
    /\ override # None => files[override].status = "ok"

\* C12: constructing Analysis ends with good = False when the base document, or
\* an override document that was supplied, is missing or cannot be parsed, and
\* with good = True only when every supplied document was read and parsed; when
\* good is False main() returns 1 and interpret() is never called.
C12_InputFailure ==
    /\ pc # "main" => (good <=> AllRead)
    /\ (pc \notin {"main", "constructed"} /\ ~good) =>
          /\ pc = "exit" /\ ret = 1
          /\ baseDefinitions = <<>> /\ result = <<>>

\* the part of C12 about main(): an Analysis that is not good is never interpreted
C12_NotGoodNotInterpreted ==
    (pc \notin {"main", "constructed"} /\ ~good) =>
        /\ pc = "exit" /\ ret = 1
        /\ baseDefinitions = <<>> /\ result = <<>>

----------------------------------------------------------------------------
(* Analysis.eKey under sorted() *)

\* the tags of the records of a table
Tags == {"simpleType", "complexType", "element", "schema"}

\* sorted(definitions.items(), key=self.eKey) of a table of records of any tag,
\* abstract or not
InitSort ==
    /\ pc = "sort"
    /\ \E n \in 0..MaxRecords :
          \E tg \in [Keys(n) -> Tags], ab \in [Keys(n) -> BOOLEAN] :
              definitions = [name \in Keys(n) |->
                                [tag |-> tg[name], abstract |-> ab[name],
                                 mixed |-> False, subs |-> NoneStr,
                                 kind |-> None, base |-> NoneStr]]
    /\ order = <<>> /\ redefinitions = <<>>
    /\ extracted = definitions
    /\ pos = 1 /\ changed = 0 /\ i = 0 /\ out = <<>> /\ calls = 0
    /\ variant \in {"Analysis", "SchemaAnalysis"}
    /\ doc = <<>> /\ idx = 1 /\ stack = <<>>
    /\ NoProgram

\* line 295 (line 208 of analysis.py): the names in the order of their keys
SortItems ==
    /\ pc = "sort"
    /\ order' = Sorted(definitions)
    /\ pc' = "sorted"
    /\ UNCHANGED <<definitions, redefinitions, pos, changed, i, out, calls, variant,
                   extracted, walkVars, progVars>>

NextSort == SortItems

SpecSort == InitSort /\ [][NextSort]_vars

\* simpleType, then complexType, then every other tag
TagRank(tag) == IF tag = "simpleType" THEN 0 ELSE IF tag = "complexType" THEN 1 ELSE 2

\* C13, as the code has it: in the sorted order no record comes before a record
\* of a lower tag rank (simpleType, complexType, any other tag); among records of
\* the same tag no non-abstract record comes before an abstract one; among
\* records of the same tag and the same abstract flag the names ascend.
C13_KeyOrder ==
    pc = "sorted" =>
        \A a, b \in 1..Len(order) :
            a < b =>
                LET ra == definitions[order[a]]
                    rb == definitions[order[b]]
                IN /\ TagRank(ra.tag) <= TagRank(rb.tag)
                   /\ ra.tag = rb.tag => ~(~ra.abstract /\ rb.abstract)
                   /\ (ra.tag = rb.tag /\ ra.abstract = rb.abstract) =>
                          StrLess(order[a], order[b])

\* an abstract element q is sorted before the non-abstract element p
C13_Witness ==
    /\ pc = "sorted"
    /\ \E a, b \in 1..Len(order) :
          /\ a < b
          /\ order[a] = q /\ order[b] = p
          /\ definitions[q].tag = "element" /\ definitions[p].tag = "element"
          /\ definitions[q].abstract /\ ~definitions[p].abstract

\* C13, as stated: simpleType before complexType before any other tag; among
\* records of the same tag every non-abstract record before every abstract one;
\* among records of the same tag and abstract flag, by name.
C13_KeyOrderAsStated ==
    pc = "sorted" =>
        \A a, b \in 1..Len(order) :
            a < b =>
                LET ra == definitions[order[a]]
                    rb == definitions[order[b]]
                IN /\ TagRank(ra.tag) <= TagRank(rb.tag)
                   /\ ra.tag = rb.tag => ~(ra.abstract /\ ~rb.abstract)
                   /\ (ra.tag = rb.tag /\ ra.abstract = rb.abstract) =>
                          StrLess(order[a], order[b])

----------------------------------------------------------------------------
(* The base reference of a definition *)

\* the (definingName, topDef) node k of a tree is visited with
Context(d, k) == Walk(EmptyWalk, SubSeq(d, 1, k - 1), 1).stack[d[k].depth + 1]

\* the extension nodes with a base below the top level of the definition of a name
Extensions(d, name) ==
    {k \in 1..Len(d) :
        /\ Context(d, k).definingName = name
        /\ ~Context(d, k).topDef
        /\ d[k].tag = "extension"
        /\ TruthyStr(d[k].base)}

\* C14: when the subtree of an element definition has, below its top level, one
\* or more extension nodes with a base attribute, the base recorded on the
\* definition after extraction is the base of the first of them in pre-order.
C14_BaseSetOnce ==
    pc = "extracted" =>
        \A name \in DOMAIN definitions :
            Extensions(doc, name) # {} =>
                LET first == CHOOSE k \in Extensions(doc, name) :
                                 \A j \in Extensions(doc, name) : k <= j
                IN definitions[name].base = doc[first].base

\* what the code does: the base of the last such extension node is recorded
C14_LastBaseKept ==
    pc = "extracted" =>
        \A name \in DOMAIN definitions :
            IF Extensions(doc, name) = {} THEN definitions[name].base = NoneStr
            ELSE LET last == CHOOSE k \in Extensions(doc, name) :
                                 \A j \in Extensions(doc, name) : k >= j
                 IN definitions[name].base = doc[last].base

----------------------------------------------------------------------------
(* The table resolve() returns *)

\* record a has what its consulted reference gives: a kind when the record the
\* reference names has one, mixed when that record is mixed
Complete(defs, a) ==
    Target(defs[a]) \in DOMAIN defs =>
        /\ defs[Target(defs[a])].kind # None => defs[a].kind # None
        /\ defs[Target(defs[a])].mixed = True => defs[a].mixed = True

\* C15: when resolve() returns, every record whose consulted reference names an
\* existing record with a known kind has a known kind, and every record whose
\* consulted reference names an existing record that is mixed is mixed; also a
\* record whose own mixed flag was true before resolution.
C15_CompleteAtFixedPoint ==
    pc = "returned" => \A a \in DOMAIN definitions : Complete(definitions, a)

\* the part of C15 the code keeps: the records that were not mixed before
\* resolution
C15_CompleteUnlessMixed ==
    pc = "returned" =>
        \A a \in DOMAIN definitions :
            extracted[a].mixed = False => Complete(definitions, a)

----------------------------------------------------------------------------
(* resolve() under every scan order *)

\* the orders definitions.items() can have: the names in any arrangement
Orders(S) ==
    {o \in [1..Cardinality(S) -> S] :
        \A a, b \in 1..Cardinality(S) : a # b => o[a] # o[b]}

\* infer() of either variant: one whole scan, unless a record raises
RECURSIVE ScanOf(_, _, _, _, _)
ScanOf(v, defs, ord, k, count) ==
    IF k > Len(ord) THEN [defs |-> defs, changed |-> count, raised |-> FALSE]
    ELSE LET res == InferOneOf(v, defs, ord[k])
         IN IF res.raised THEN [defs |-> res.defs, changed |-> count, raised |-> TRUE]
            ELSE ScanOf(v, res.defs, ord, k + 1, count + res.changed)

\* resolve() of either variant: the table it returns, the rounds it took, and
\* whether it raised instead
RECURSIVE ResolveOf(_, _, _, _)
ResolveOf(v, defs, ord, rounds) ==
    LET round == ScanOf(v, defs, ord, 1, 0)
    IN IF round.raised
       THEN [defs |-> round.defs, rounds |-> rounds + 1, raised |-> TRUE]
       ELSE IF round.changed # 0 THEN ResolveOf(v, round.defs, ord, rounds + 1)
       ELSE [defs |-> round.defs, rounds |-> rounds + 1, raised |-> FALSE]

\* one call of resolve() on a table whose records stand in any order
InitOrder ==
    /\ pc = "infer"
    /\ \E n \in 0..MaxRecords :
          /\ \E m \in [Keys(n) -> {False, True}],
                hk \in [Keys(n) -> BOOLEAN],
                tg \in [Keys(n) -> Keys(n) \cup {NoneStr, Missing}] :
                definitions = [k \in Keys(n) |-> Record(k, m[k], hk[k], tg[k])]
          /\ order \in Orders(Keys(n))
    /\ extracted = definitions
    /\ doc = <<>> /\ idx = 1 /\ stack = <<>>
    /\ NoProgram
    /\ variant \in {"Analysis", "SchemaAnalysis"}
    /\ redefinitions = <<>>
    /\ pos = 1 /\ changed = 0 /\ i = 0 /\ out = <<>>
    /\ calls = MaxCalls

NextOrder == InferStep \/ EndRound

SpecOrder == InitOrder /\ [][NextOrder]_vars

\* C16: the table resolve() returns for an extracted table is the table it
\* returns under every other scan order of the records, and when it raises
\* instead it raises under every scan order.
C16_OrderIndependent ==
    /\ pc = "returned" =>
          \A o \in Orders(DOMAIN extracted) :
              /\ ~ResolveOf(variant, extracted, o, 0).raised
              /\ ResolveOf(variant, extracted, o, 0).defs = definitions
    /\ pc = "raised" =>
          \A o \in Orders(DOMAIN extracted) : ResolveOf(variant, extracted, o, 0).raised

\* resolve() has returned a table it changed, and under another scan order it
\* takes another number of rounds
C16_Witness ==
    /\ pc = "returned"
    /\ definitions # extracted
    /\ \E o \in Orders(DOMAIN extracted) :
          /\ o # order
          /\ ResolveOf(variant, extracted, o, 0).rounds # i

====
